---- MODULE Spec2Model ----
(***************************************************************************)
(* The configuration write worker of Eye (ConfigurationWrite) over its     *)
(* temporally versioned store, and the result renderer of the REST layer.  *)
(*                                                                         *)
(* Time is counted in minutes.  The wall clock advances in steps of        *)
(* ClockStep minutes; two requests served between two clock steps carry    *)
(* the same timestamp.  The worker can be overtaken where it waits: on     *)
(* conn.Begin, after it has opened the transaction of a request, and       *)
(* before it sends the Result; the statements of one transaction take      *)
(* effect together.                                                        *)
(***************************************************************************)
EXTENDS Integers, Sequences, FiniteSets, TLC

\* ------------------------------------------------------------------ bounds
MaxTime == 20
ClockStep == 10
QueueLen == 2
MaxRequests == 3
MaxQueued == 3
MaxArrivals == 3

\* ------------------------------------------------------- program constants
\* remove: validUntil = transactionTS.Add(15 * time.Minute)
GraceMinutes == 15
ResultOK == 200
ResultBadRequest == 400
ResultServerError == 500
\* http.StatusServiceUnavailable
StatusServiceUnavailable == 503

\* msg.PosTimeInf / msg.NegTimeInf: the sentinel instants, above and below
\* every instant of the clock
PosTimeInf == 1000000
NegTimeInf == -1000000

ConfigIDs == {"c1", "c2"}
Hashes == {"h1"}

ActionAdd == "add"
ActionRemove == "remove"
ActionUpdate == "update"
ActionActivate == "activate"
ActionNop == "nop"
ActionList == "list"

\* msg.ProtocolInvalid, msg.ProtocolOne, msg.ProtocolTwo
ProtocolInvalid == 0
ProtocolOne == 1
ProtocolTwo == 2

\* http.StatusNoContent
StatusNoContent == 204

SectionConfiguration == "configuration"
SectionDeployment == "deployment"
SectionLookup == "lookup"
SectionRegistration == "registration"
\* the Section of a Result that no handler has set
SectionUnset == ""

TaskRollout == "rollout"
TaskDeprovision == "deprovision"
TaskDelete == "delete"
TaskClearing == "clearing"

VARIABLES now, store, Input, job, replies, ticket, served, last, openTx,
          result, rendered, wire, ShutdownInProgress, gate

vars == <<now, store, Input, job, replies, ticket, served, last, openTx,
          result, rendered, wire, ShutdownInProgress, gate>>

\* --------------------------------------------------- time / validity algebra
\* Wire form of a timestamp: a sentinel word or an RFC3339 instant.
Wire(kind, at) == [kind |-> kind, at |-> at]

FormatValidity(t) ==
    IF t = PosTimeInf THEN Wire("infinity", 0)
    ELSE IF t = NegTimeInf THEN Wire("-infinity", 0)
    ELSE Wire("instant", t)

ParseValidity(s) ==
    IF s.kind = "infinity" THEN PosTimeInf
    ELSE IF s.kind = "-infinity" THEN NegTimeInf
    ELSE s.at

FormatProvision(t) ==
    IF t = NegTimeInf THEN Wire("never", 0)
    ELSE IF t = PosTimeInf THEN Wire("infinity", 0)
    ELSE Wire("instant", t)

ParseProvision(s) ==
    IF s.kind = "never" THEN NegTimeInf
    ELSE IF s.kind = "infinity" THEN PosTimeInf
    ELSE s.at

\* time.Time.Format(RFC3339Milli) of an instant of the clock
FormatRFC3339Milli(t) == Wire("instant", t)

Before(a, b) == a < b

\* ------------------------------------------------------ configuration store
\* Tables: lookup hashes, configuration ids bound to a lookup hash, data
\* revisions with their validity range [validFrom, validUntil), provisioning
\* records per data revision, activation records per configuration id.
EmptyStore ==
    [lookup |-> {}, cfg |-> {}, data |-> {}, prov |-> {}, act |-> {}]

\* result of one statement: the store as the transaction sees it afterwards,
\* the rows-affected count and whether the database raised an error
Stmt(st, rows, err) == [store |-> st, rows |-> rows, err |-> err]

Overlaps(r1, r2) ==
    /\ r1.validFrom < r1.validUntil
    /\ r2.validFrom < r2.validUntil
    /\ r1.validFrom < r2.validUntil
    /\ r2.validFrom < r1.validUntil

\* the exclusion constraint on (configurationID, validity)
ExclusionHolds(data) ==
    \A r1 \in data : \A r2 \in data :
        (r1.id # r2.id /\ r1.cfg = r2.cfg) => ~Overlaps(r1, r2)

registerLookupHash(st, hash) ==
    IF hash \in st.lookup THEN Stmt(st, 0, FALSE)
    ELSE Stmt([st EXCEPT !.lookup = @ \cup {hash}], 1, FALSE)

bindConfigurationToLookup(st, cfg, hash) ==
    IF \E c \in st.cfg : c.id = cfg THEN Stmt(st, 0, FALSE)
    ELSE Stmt([st EXCEPT !.cfg = @ \cup {[id |-> cfg, hash |-> hash]}], 1, FALSE)

OpenRows(st, cfg) ==
    {r \in st.data : r.cfg = cfg /\ r.validUntil = PosTimeInf}

selectOpenValidity(st, cfg) ==
    IF OpenRows(st, cfg) = {} THEN [found |-> FALSE, dataID |-> 0, validFrom |-> 0]
    ELSE LET r == CHOOSE x \in OpenRows(st, cfg) : TRUE
         IN  [found |-> TRUE, dataID |-> r.id, validFrom |-> r.validFrom]

closeValidity(st, dataID, validFrom, validUntil) ==
    LET hit == {r \in st.data : r.id = dataID}
        upd == {IF r.id = dataID
                THEN [r EXCEPT !.validFrom = validFrom, !.validUntil = validUntil]
                ELSE r : r \in st.data}
    IN  IF hit = {} THEN Stmt(st, 0, FALSE)
        ELSE IF validFrom > validUntil \/ ~ExclusionHolds(upd) THEN Stmt(st, 0, TRUE)
        ELSE Stmt([st EXCEPT !.data = upd], 1, FALSE)

insertData(st, dataID, cfg, validFrom) ==
    LET row == [id |-> dataID, cfg |-> cfg, validFrom |-> validFrom,
                validUntil |-> PosTimeInf]
        ins == st.data \cup {row}
    IN  IF ~ExclusionHolds(ins) THEN Stmt(st, 0, TRUE)
        ELSE Stmt([st EXCEPT !.data = ins], 1, FALSE)

insertProvisioning(st, dataID, cfg, ts, tasks) ==
    Stmt([st EXCEPT !.prov = @ \cup {[dataID |-> dataID, cfg |-> cfg,
                                      provisionedAt |-> ts,
                                      deprovisionedAt |-> NegTimeInf,
                                      tasks |-> tasks]}], 1, FALSE)

finalizeProvisioning(st, dataID, ts, task) ==
    LET hit == {p \in st.prov : p.dataID = dataID}
        upd == {IF p.dataID = dataID
                THEN [p EXCEPT !.deprovisionedAt = ts, !.tasks = Append(@, task)]
                ELSE p : p \in st.prov}
    IN  IF hit = {} THEN Stmt(st, 0, FALSE)
        ELSE Stmt([st EXCEPT !.prov = upd], 1, FALSE)

getActivation(st, cfg) ==
    IF \E a \in st.act : a.cfg = cfg
    THEN [found |-> TRUE, at |-> (CHOOSE a \in st.act : a.cfg = cfg).at]
    ELSE [found |-> FALSE, at |-> 0]

setActivation(st, cfg, ts) ==
    IF \E a \in st.act : a.cfg = cfg THEN Stmt(st, 0, FALSE)
    ELSE Stmt([st EXCEPT !.act = @ \cup {[cfg |-> cfg, at |-> ts]}], 1, FALSE)

clearActivation(st, cfg) ==
    LET hit == {a \in st.act : a.cfg = cfg}
    IN  Stmt([st EXCEPT !.act = @ \ hit], Cardinality(hit), FALSE)

updateConfiguration(st, cfg, hash) ==
    LET hit == {c \in st.cfg : c.id = cfg}
    IN  IF hit = {} THEN Stmt(st, 0, FALSE)
        ELSE Stmt([st EXCEPT !.cfg = (@ \ hit) \cup {[id |-> cfg, hash |-> hash]}],
                  1, FALSE)

\* ------------------------------------------------------------ result envelope
\* v2.Configuration as carried in a Request or a Result
Configuration(id, lookupID, activatedAt, data) ==
    [ID |-> id, LookupID |-> lookupID, ActivatedAt |-> activatedAt, Data |-> data]

MetaInformation(validFrom, validUntil, provisionedAt, deprovisionedAt, tasks) ==
    [ValidFrom |-> validFrom, ValidUntil |-> validUntil,
     ProvisionedAt |-> provisionedAt, DeprovisionedAt |-> deprovisionedAt,
     Tasks |-> tasks]

\* the configuration of a request as the HTTP handler decoded it
ReqConfiguration(q) ==
    Configuration(q.cfg, "", Wire("unknown", 0), <<>>)

\* What one run of a handler leaves behind: the committed store, the Result
\* (Code, Error, Configuration) and the fate of the handler's transaction:
\* "none" (never begun), "committed", "rolledback", "failed" (Commit returned
\* an error and released the transaction) or "open".
\* rows is the rows-affected count update read (-1: none read), message the
\* error message update composed itself.
NoMessage == [text |-> "", n |-> 0]

Outcome(st, code, err, payload, tx) ==
    [store |-> st, code |-> code, err |-> err, payload |-> payload, tx |-> tx,
     excluded |-> FALSE, found |-> FALSE, dataID |-> 0, provRows |-> -1,
     rows |-> -1, message |-> NoMessage]

\* the Result of an Outcome, with the fate of the transaction behind it
Result(out) ==
    [code |-> out.code, err |-> out.err, payload |-> out.payload,
     tx |-> out.tx, excluded |-> out.excluded, found |-> out.found,
     dataID |-> out.dataID, provRows |-> out.provRows,
     rows |-> out.rows, message |-> out.message]

\* msg.Result.ExpectedRows: the rows-affected count is one of the expected
\* counts; the Result becomes a ServerError otherwise
ExpectedRows(rows, expected) == rows \in expected

\* ----------------------------------------------------- database misbehaviour
\* What the database answers to one step of a handler: the regular answer,
\* an error, or a rows-affected count the statement should never report.
NoFault == [at |-> "none", kind |-> "none", n |-> 0]
ErrAt(step) == [at |-> step, kind |-> "err", n |-> 0]
RowsAt(step, n) == [at |-> step, kind |-> "rows", n |-> n]

Err(f, step) == f.at = step /\ f.kind = "err"
Rows(f, step, regular) == IF f.at = step /\ f.kind = "rows" THEN f.n ELSE regular

\* sql.Tx.Rollback and sql.Tx.Commit: the store all connections see afterwards,
\* given the store at Begin (st0) and the store inside the transaction (s)
txRollback(st0, s) == st0
txCommit(st0, s) == s

\* the value of a one-element set
Only(S) == CHOOSE x \in S : TRUE

\* uuid.NewV4: an id no data revision carries yet
NewDataID(st) == Cardinality(st.data) + 1

\* ------------------------------------------------------------------------ add
\* add: no still valid data is found (sql.ErrNoRows)
skipInvalidatePrevious(sel) == ~sel.found

\* faulty variant: the arguments of the validity update mixed up
previousValidity_SameBound(validFrom, rolloutTS) ==
    [validFrom |-> validFrom, validUntil |-> validFrom]

\* faulty variant: the previous revision is collapsed onto the rollout instant
previousValidity_FromRollout(validFrom, rolloutTS) ==
    [validFrom |-> rolloutTS, validUntil |-> rolloutTS]

\* add: the validity written to the previous revision,
\* stmtCfgDataUpdateValidity(validFrom, rolloutTS, previousDataID)
previousValidity(validFrom, rolloutTS) ==
    [validFrom |-> validFrom, validUntil |-> rolloutTS]

\* faulty variant: the error path leaves what the transaction wrote
addAbort_KeepsWrites(st0, s, excl) ==
    [Outcome(txCommit(st0, s), ResultServerError, TRUE, <<>>, "committed")
        EXCEPT !.excluded = excl]

\* add: a statement failed or a row count was off: ServerError and Rollback
addAbort(st0, s, excl) ==
    [Outcome(txRollback(st0, s), ResultServerError, TRUE, <<>>, "rolledback")
        EXCEPT !.excluded = excl]

\* add: the reply generated after Commit
addReply(q, dataID, rolloutTS, activatedAt) ==
    Configuration(q.cfg, q.hash, activatedAt,
        <<[ID |-> dataID,
           Info |-> MetaInformation(FormatRFC3339Milli(rolloutTS),
                                    Wire("infinity", 0),
                                    FormatRFC3339Milli(rolloutTS),
                                    Wire("never", 0),
                                    <<TaskRollout>>)]>>)

\* add: query if this configurationID is activated, Commit, generate the reply
addCommit(st0, s, q, rolloutTS, f, found, dataID, provRows) ==
    Only({ IF Err(f, "actget")
           THEN [addAbort(st0, s, FALSE) EXCEPT !.provRows = provRows]
           ELSE IF Err(f, "commit")
           THEN [Outcome(st0, ResultServerError, TRUE, <<>>, "failed")
                    EXCEPT !.provRows = provRows]
           ELSE [Outcome(txCommit(st0, s), ResultOK, FALSE,
                         <<addReply(q, dataID, rolloutTS,
                                    IF act.found THEN FormatRFC3339Milli(act.at)
                                    ELSE Wire("never", 0))>>,
                         "committed")
                    EXCEPT !.provRows = provRows, !.dataID = dataID,
                           !.found = found]
           : act \in {getActivation(s, q.cfg)} })

\* add: record provision request.  The result of stmtProvAdd is discarded
\* and ExpectedRows is given res, still the result of stmtCfgAddData.
addProvision(st0, s, q, rolloutTS, f, found, dataID, res) ==
    Only({ IF Err(f, "prov")
           THEN addAbort(st0, s, FALSE)
           ELSE IF ~ExpectedRows(res, {1})
           THEN [addAbort(st0, r.store, FALSE) EXCEPT !.provRows = r.rows]
           ELSE addCommit(st0, r.store, q, rolloutTS, f, found, dataID, r.rows)
           : r \in {IF Rows(f, "prov", 1) = 0 THEN Stmt(s, 0, FALSE)
                    ELSE [insertProvisioning(s, dataID, q.cfg, rolloutTS,
                                             <<TaskRollout>>)
                            EXCEPT !.rows = Rows(f, "prov", 1)]} })

\* add: insert configuration data as valid from rolloutTS to infinity
addData(st0, s, q, rolloutTS, f, found, dataID) ==
    Only({ IF Err(f, "insert") \/ r.err
           THEN addAbort(st0, r.store, r.err)
           ELSE IF ~ExpectedRows(Rows(f, "insert", r.rows), {1})
           THEN addAbort(st0, r.store, FALSE)
           ELSE addProvision(st0, r.store, q, rolloutTS, f, found, dataID,
                             Rows(f, "insert", r.rows))
           : r \in {insertData(s, dataID, q.cfg, rolloutTS)} })

\* add: invalidate the previous revision
addInvalidatePrevious(st0, s, q, rolloutTS, f, dataID, sel) ==
    Only({ IF Err(f, "close") \/ r.err
           THEN addAbort(st0, r.store, r.err)
           ELSE IF ~ExpectedRows(Rows(f, "close", r.rows), {1})
           THEN addAbort(st0, r.store, FALSE)
           ELSE addData(st0, r.store, q, rolloutTS, f, TRUE, dataID)
           : r \in {closeValidity(s, sel.dataID,
                        previousValidity(sel.validFrom, rolloutTS).validFrom,
                        previousValidity(sel.validFrom, rolloutTS).validUntil)} })

\* add: select the still valid data for update
addSelectValid(st0, s, q, rolloutTS, f, dataID) ==
    Only({ IF Err(f, "select")
           THEN addAbort(st0, s, FALSE)
           ELSE IF skipInvalidatePrevious(sel)
           THEN addData(st0, s, q, rolloutTS, f, FALSE, dataID)
           ELSE addInvalidatePrevious(st0, s, q, rolloutTS, f, dataID, sel)
           : sel \in {selectOpenValidity(s, q.cfg)} })

\* add: register configurationID with its lookup hash
addBindID(st0, s, q, rolloutTS, f, dataID) ==
    Only({ IF Err(f, "bind") \/ r.err
           THEN addAbort(st0, r.store, FALSE)
           ELSE IF ~ExpectedRows(Rows(f, "bind", r.rows), {0, 1})
           THEN addAbort(st0, r.store, FALSE)
           ELSE addSelectValid(st0, r.store, q, rolloutTS, f, dataID)
           : r \in {bindConfigurationToLookup(s, q.cfg, q.hash)} })

\* add: register lookup hash
addRegisterLookup(st0, q, rolloutTS, f, dataID) ==
    Only({ IF Err(f, "lookup") \/ r.err
           THEN addAbort(st0, r.store, FALSE)
           ELSE IF ~ExpectedRows(Rows(f, "lookup", r.rows), {0, 1})
           THEN addAbort(st0, r.store, FALSE)
           ELSE addBindID(st0, r.store, q, rolloutTS, f, dataID)
           : r \in {registerLookupHash(st0, q.hash)} })

add(st, q, rolloutTS, f) ==
    IF Err(f, "marshal") \/ Err(f, "begin")
    THEN Outcome(st, ResultServerError, TRUE, <<>>, "none")
    ELSE addRegisterLookup(st, q, rolloutTS, f, NewDataID(st))

\* --------------------------------------------------------------------- remove
\* txCfgLoadActive: the open revision of the configuration (selectOpenValidity)
\* and its data, provisioning and activation as stmtCfgShow returns them;
\* sql.ErrNoRows when there is none
txCfgLoadActive(st, cfg) ==
    LET sel  == selectOpenValidity(st, cfg)
        row  == CHOOSE r \in st.data : r.id = sel.dataID
        bind == {c \in st.cfg : c.id = cfg}
        prov == {p \in st.prov : p.dataID = sel.dataID}
        act  == getActivation(st, cfg)
        p    == CHOOSE x \in prov : TRUE
        info == MetaInformation(FormatValidity(row.validFrom),
                                FormatValidity(row.validUntil),
                                FormatProvision(p.provisionedAt),
                                FormatProvision(p.deprovisionedAt),
                                p.tasks)
    IN  IF ~sel.found \/ bind = {} \/ prov = {}
        THEN [found |-> FALSE, configuration |-> Configuration(cfg, "", Wire("unknown", 0), <<>>)]
        ELSE [found |-> TRUE,
              configuration |->
                Configuration(cfg, (CHOOSE c \in bind : TRUE).hash,
                              IF act.found THEN FormatRFC3339Milli(act.at)
                              ELSE Wire("never", 0),
                              <<[ID |-> sel.dataID, Info |-> info]>>)]

\* txSetDataValidity: stmtCfgDataUpdateValidity(validFrom, validUntil, dataID)
txSetDataValidity(st, validFrom, validUntil, dataID) ==
    closeValidity(st, dataID, validFrom, validUntil)

\* faulty variant: the clearing flag is looked at whatever the task
removeTask_ClearingFirst(q) ==
    IF q.alarm THEN TaskClearing
    ELSE IF q.task = TaskDelete THEN TaskDelete ELSE TaskDeprovision

\* remove: the task recorded for the request
removeTask(q) ==
    LET task == IF q.task = TaskDelete THEN TaskDelete ELSE TaskDeprovision
    IN  IF task = TaskDeprovision /\ q.alarm THEN TaskClearing ELSE task

\* faulty variant: the grace window taken off instead of added
removeValidUntil_GraceBefore(q, transactionTS) ==
    IF q.task = TaskDelete THEN transactionTS
    ELSE transactionTS - GraceMinutes

\* remove: the end of validity requested: the 15 minute grace window for
\* deprovision requests, none for final deletions
removeValidUntil(q, transactionTS) ==
    IF q.task = TaskDelete THEN transactionTS
    ELSE transactionTS + GraceMinutes

\* remove: a loaded validUntil that is not positive infinity is kept
keepValidUntil(loaded, validUntil) ==
    IF PosTimeInf # ParseValidity(loaded) THEN ParseValidity(loaded)
    ELSE validUntil

\* remove: an earlier deprovisioning timestamp backdates the transaction
backdate(deprovisionedAt, transactionTS) ==
    IF Before(ParseProvision(deprovisionedAt), transactionTS)
    THEN ParseProvision(deprovisionedAt)
    ELSE transactionTS

\* faulty variant: the abort label returns without the rollback
removeAbort_NoRollback(st0, s, payload, dataID, excl) ==
    [Outcome(st0, ResultServerError, TRUE, payload, "open")
        EXCEPT !.excluded = excl, !.found = (dataID # 0), !.dataID = dataID]

\* remove: the abort and rollback labels
removeAbort(st0, s, payload, dataID, excl) ==
    [Outcome(txRollback(st0, s), ResultServerError, TRUE, payload, "rolledback")
        EXCEPT !.excluded = excl, !.found = (dataID # 0), !.dataID = dataID]

\* remove: the commitTx label
removeCommit(st0, s, payload, dataID, f) ==
    IF Err(f, "commit")
    THEN [Outcome(st0, ResultServerError, TRUE, payload, "failed")
            EXCEPT !.found = (dataID # 0), !.dataID = dataID]
    ELSE [Outcome(txCommit(st0, s), ResultOK, FALSE, payload, "committed")
            EXCEPT !.found = (dataID # 0), !.dataID = dataID]

\* faulty variant: every remove resets the activation
resetRequired_Always(q) == TRUE

\* if q.Flags.ResetActivation
resetRequired(q) == q.reset

\* remove: remove the metric activation if required, then commitTx
removeActivation(st0, s, q, f, payload, dataID) ==
    IF ~resetRequired(q) THEN removeCommit(st0, s, payload, dataID, f)
    ELSE Only({ IF Err(f, "actdel") \/ r.err
                THEN removeAbort(st0, r.store, payload, dataID, FALSE)
                ELSE IF ~ExpectedRows(Rows(f, "actdel", r.rows), {0, 1})
                THEN removeAbort(st0, r.store, payload, dataID, FALSE)
                ELSE removeCommit(st0, r.store, payload, dataID, f)
                : r \in {clearActivation(s, q.cfg)} })

\* remove: update provisioning record
removeFinalize(st0, s, q, f, payload, dataID, transactionTS) ==
    Only({ IF Err(f, "finalize") \/ r.err
           THEN removeAbort(st0, r.store, payload, dataID, FALSE)
           ELSE IF ~ExpectedRows(Rows(f, "finalize", r.rows), {1})
           THEN removeAbort(st0, r.store, payload, dataID, FALSE)
           ELSE removeActivation(st0, r.store, q, f, payload, dataID)
           : r \in {finalizeProvisioning(s, dataID,
                        FormatRFC3339Milli(transactionTS).at, removeTask(q))} })

\* remove: update validity records within the database
removeValidity(st0, q, f, payload, data, transactionTS) ==
    Only({ IF Err(f, "close") \/ r.err
           THEN removeAbort(st0, r.store, payload, data.ID, r.err)
           ELSE IF ~ExpectedRows(Rows(f, "close", r.rows), {1})
           THEN removeAbort(st0, r.store, payload, data.ID, FALSE)
           ELSE removeFinalize(st0, r.store, q, f, payload, data.ID, transactionTS)
           : r \in {txSetDataValidity(st0, ParseValidity(data.Info.ValidFrom),
                                      ParseValidity(data.Info.ValidUntil),
                                      data.ID)} })

\* remove: the loaded revision with ValidUntil and DeprovisionedAt set for
\* this request; the configuration is appended to the Result before any
\* statement runs
removeLoaded(st0, q, now0, f, configuration) ==
    Only({ removeValidity(st0, q, f,
                <<[configuration EXCEPT !.Data = <<data>>]>>, data,
                backdate(configuration.Data[1].Info.DeprovisionedAt, now0))
           : data \in {[configuration.Data[1] EXCEPT
                !.Info.ValidUntil =
                    FormatValidity(keepValidUntil(@, removeValidUntil(q, now0))),
                !.Info.DeprovisionedAt =
                    FormatProvision(backdate(@, now0))]} })

\* faulty variant: the activation is reset before the commit
removeNotFound_ResetsActivation(st0, q, f) ==
    removeActivation(st0, st0, q, f, <<>>, 0)

\* remove: that which does not exist can not be deleted, goto commitTx
removeNotFound(st0, q, f) == removeCommit(st0, st0, <<>>, 0, f)

remove(st, q, now0, f) ==
    IF Err(f, "begin")
    THEN Outcome(st, ResultServerError, TRUE, <<>>, "none")
    ELSE IF Err(f, "load")
    THEN removeAbort(st, st, <<>>, 0, FALSE)
    ELSE Only({ IF ~ld.found THEN removeNotFound(st, q, f)
                ELSE removeLoaded(st, q, now0, f, ld.configuration)
                : ld \in {txCfgLoadActive(st, q.cfg)} })

\* --------------------------------------------------------------------- update
\* faulty variant: any update that hit a row passes
updateRowsOK_AtLeastOne(count) == count >= 1

\* update: statement should affect 1 row
updateRowsOK(count) == count = 1

\* fmt.Errorf("Rollback: update statement affected %d rows", count)
updateRowsMessage(count) ==
    [text |-> "Rollback: update statement affected %d rows", n |-> count]

update(st, q, f) ==
    IF Err(f, "marshal") \/ Err(f, "begin")
    THEN Outcome(st, ResultServerError, TRUE, <<>>, "none")
    ELSE Only({
        IF Err(f, "update") \/ r1.err
        THEN Outcome(txRollback(st, r1.store), ResultServerError, TRUE, <<>>,
                     "rolledback")
        ELSE IF ~updateRowsOK(Rows(f, "update", r1.rows))
        THEN [Outcome(txRollback(st, r1.store), ResultServerError, TRUE, <<>>,
                      "rolledback")
                EXCEPT !.rows = Rows(f, "update", r1.rows),
                       !.message = updateRowsMessage(Rows(f, "update", r1.rows))]
        ELSE IF Err(f, "commit")
        THEN [Outcome(st, ResultServerError, TRUE, <<>>, "failed")
                EXCEPT !.rows = Rows(f, "update", r1.rows)]
        ELSE [Outcome(txCommit(st, r1.store), ResultOK, FALSE, <<>>, "committed")
                EXCEPT !.rows = Rows(f, "update", r1.rows)]
        : r1 \in {updateConfiguration(st, q.cfg, q.hash)} })

\* ------------------------------------------------------------------- activate
\* msg.Result.RowCnt: 0 or 1 row is OK, and TRUE for 1; anything else is a
\* ServerError
RowCntOK(rows) == rows \in {0, 1}
RowCnt(rows) == rows = 1

\* faulty variant: the configuration is appended whatever the row count
activatePayload_Always(q, rows) == <<ReqConfiguration(q)>>

\* activate: the configuration is appended when RowCnt reports one row
activatePayload(q, rows) ==
    IF RowCnt(rows) THEN <<ReqConfiguration(q)>> ELSE <<>>

activate(st, q, now0, f) ==
    LET r1   == setActivation(st, q.cfg, now0)
        rows == Rows(f, "actset", r1.rows)
    IN  IF Err(f, "actset") \/ r1.err
        THEN Outcome(st, ResultServerError, TRUE, <<>>, "none")
        ELSE IF ~RowCntOK(rows)
        THEN Outcome(r1.store, ResultServerError, TRUE, <<>>, "none")
        ELSE Outcome(r1.store, ResultOK, FALSE, activatePayload(q, rows), "none")

\* -------------------------------------------------------------------- process
\* the request dispatcher: the Result it sends on q.Reply
process(st, q, now0, f) ==
    CASE q.action = ActionAdd      -> add(st, q, now0, f)
      [] q.action = ActionRemove   -> remove(st, q, now0, f)
      [] q.action = ActionUpdate   -> update(st, q, f)
      [] q.action = ActionActivate -> activate(st, q, now0, f)
      [] q.action = ActionNop      -> Outcome(st, ResultOK, FALSE, <<>>, "none")
      [] OTHER -> Outcome(st, ResultBadRequest, TRUE, <<>>, "none")

\* faulty variant: the default branch of the dispatcher returns without replying
repliesSent_NotForUnknown(q) ==
    IF q.action \in {ActionAdd, ActionRemove, ActionUpdate, ActionActivate,
                     ActionNop}
    THEN 1 ELSE 0

\* how many Results process sends on q.Reply
repliesSent(q) == 1

\* ------------------------------------------------------------------ respondV2
\* A *[]T field of v2.Result: a nil pointer, a pointer to a nil slice or a
\* pointer to a slice
NilPointer == [alloc |-> FALSE, isnil |-> TRUE, items |-> <<>>]
PointerTo(items) == [alloc |-> TRUE, isnil |-> FALSE, items |-> items]
PointerToNil == [alloc |-> TRUE, isnil |-> TRUE, items |-> <<>>]

\* v2.NewConfigurationResult / v2.NewRegistrationResult: the error list and
\* the list of the section are allocated; both tells whether the list of the
\* other shape is allocated as well
NewConfigurationResult(both) ==
    [Section |-> "", StatusCode |-> 0, Errors |-> PointerTo(<<>>),
     Configurations |-> PointerTo(<<>>),
     Registrations |-> IF both THEN PointerTo(<<>>) ELSE NilPointer]

NewRegistrationResult(both) ==
    [Section |-> "", StatusCode |-> 0, Errors |-> PointerTo(<<>>),
     Configurations |-> IF both THEN PointerTo(<<>>) ELSE NilPointer,
     Registrations |-> PointerTo(<<>>)]

\* var protoRes v2.Result: the zero value, every list a nil pointer
ZeroResult ==
    [Section |-> "", StatusCode |-> 0, Errors |-> NilPointer,
     Configurations |-> NilPointer, Registrations |-> NilPointer]

\* create external protocol result; a section that matches no case leaves
\* the zero value
newProtoRes(r, both) ==
    CASE r.Section \in {SectionConfiguration, SectionDeployment, SectionLookup}
            -> NewConfigurationResult(both)
      [] r.Section = SectionRegistration -> NewRegistrationResult(both)
      [] OTHER -> ZeroResult

\* *protoRes.Errors = append(*protoRes.Errors, ...) through a nil pointer
copyErrorPanics(r, protoRes) == r.Error /\ ~protoRes.Errors.alloc

\* internal result contains an error, copy over into protocol result
copyError(r, protoRes) ==
    [protoRes EXCEPT !.Section = r.Section,
                     !.Errors.items = IF r.Error THEN Append(@, "error") ELSE @]

\* faulty variant: the token is never switched to failed for an error
feedbackOf_Success(r) == "success"

\* feedback = `success`, and `failed` when the result contains an error
feedbackOf(r) == IF r.Error THEN "failed" ELSE "success"

\* copy internal result data into protocol result
copyData(r, protoRes) ==
    CASE r.Section \in {SectionConfiguration, SectionDeployment, SectionLookup}
            -> [protoRes EXCEPT !.Configurations.items = @ \o r.Configuration]
      [] r.Section = SectionRegistration
            -> [protoRes EXCEPT !.Registrations.items = @ \o r.Registration]
      [] OTHER -> protoRes

\* trigger omitempty JSON encoding conditions if applicable
omitEmpty(p) ==
    IF p.alloc /\ Len(p.items) = 0 THEN PointerToNil ELSE p

triggerOmitEmpty(protoRes) ==
    [protoRes EXCEPT !.Configurations = omitEmpty(@),
                     !.Registrations = omitEmpty(@)]

\* v2.Result.SetStatus
SetStatus(protoRes, code) == [protoRes EXCEPT !.StatusCode = code]

\* what respondV2 holds after the switch on r.Code: the protocol result, the
\* flags of the result, the feedback token, and whether a nil pointer was
\* dereferenced
Rendering(protoRes, flags, feedback, panic) ==
    [protoRes |-> protoRes, Flags |-> flags, feedback |-> feedback,
     panic |-> panic]

\* faulty variant: the error branch leaves the AlarmClearing flag as it is
leakRule_KeepsClearing(r, protoRes, feedback) ==
    IF r.Code >= ResultBadRequest
    THEN Rendering([protoRes EXCEPT !.Configurations = PointerToNil,
                                    !.Registrations = PointerToNil],
                   [r.Flags EXCEPT !.CacheInvalidation = FALSE],
                   "failed",
                   ~protoRes.Configurations.alloc \/ ~protoRes.Registrations.alloc)
    ELSE Rendering(protoRes, r.Flags, feedback, FALSE)

\* case r.Code >= 400: no results are exported on error, no cache
\* invalidation and no alarm clearing for failed requests
leakRule(r, protoRes, feedback) ==
    IF r.Code >= ResultBadRequest
    THEN Rendering([protoRes EXCEPT !.Configurations = PointerToNil,
                                    !.Registrations = PointerToNil],
                   [r.Flags EXCEPT !.CacheInvalidation = FALSE,
                                   !.AlarmClearing = FALSE],
                   "failed",
                   ~protoRes.Configurations.alloc \/ ~protoRes.Registrations.alloc)
    ELSE Rendering(protoRes, r.Flags, feedback, FALSE)

\* what leaves respondV2: a call of a side-effect sink or a write to the
\* http.ResponseWriter
NoBody == [statusCode |-> 0, errors |-> <<>>, configurations |-> <<>>,
           registrations |-> <<>>]
Emit(call, token, body) == [call |-> call, token |-> token, body |-> body]

\* go sendSomaFeedback(r.FeedbackURL, feedback)
sendSomaFeedback(feedback) == Emit("sendSomaFeedback", feedback, NoBody)
\* go clearCamsAlarm(r)
clearCamsAlarm == Emit("clearCamsAlarm", "", NoBody)
hardInternalError == Emit("hardInternalError", "", NoBody)
\* the handler goroutine panics; net/http closes the connection
panicNilDereference == Emit("panic", "", NoBody)

\* json.Marshal(&protoRes): the objects of a list field on the wire
jsonItems(p) == IF p.alloc /\ ~p.isnil THEN p.items ELSE <<>>

sendJSONReply(protoRes) ==
    Emit("sendJSONReply", "",
         [statusCode |-> protoRes.StatusCode,
          errors |-> jsonItems(protoRes.Errors),
          configurations |-> jsonItems(protoRes.Configurations),
          registrations |-> jsonItems(protoRes.Registrations)])

\* respondV2 from the side effects on: deployment feedback, alarm clearing,
\* then json.Marshal and the reply
dispatch(rd, marshalErr) ==
    (IF rd.Flags.SendDeploymentFeedback
     THEN <<sendSomaFeedback(rd.feedback)>> ELSE <<>>)
    \o (IF rd.Flags.AlarmClearing THEN <<clearCamsAlarm>> ELSE <<>>)
    \o (IF marshalErr THEN <<hardInternalError>>
        ELSE <<sendJSONReply(rd.protoRes)>>)

\* respondV2 down to the switch on r.Code
rendering(r, both) ==
    IF copyErrorPanics(r, newProtoRes(r, both))
    THEN Rendering(newProtoRes(r, both), r.Flags, feedbackOf(r), TRUE)
    ELSE leakRule(r,
             SetStatus(triggerOmitEmpty(
                 copyData(r, copyError(r, newProtoRes(r, both)))), r.Code),
             feedbackOf(r))

\* respondV2: everything it emits for Result r, in the order it emits it
respondV2(r, both, marshalErr) ==
    IF rendering(r, both).panic THEN <<panicNilDereference>>
    ELSE dispatch(rendering(r, both), marshalErr)

\* respondV2 writes r.Flags through the pointer: the Result the handler
\* holds after the call; a panic at the writes before leaves it as it was
respondV2Result(r, both) ==
    IF rendering(r, both).panic THEN r
    ELSE [r EXCEPT !.Flags = rendering(r, both).Flags]

\* ------------------------------------------------------------------ respondV1
\* panic(`API Protocol 0 is not valid`), panic(`API Protocol 1 does not have
\* registrations`)
panicProtocol == Emit("panic", "protocol", NoBody)

\* http.Error(*w, r.Error.Error(), status)
httpError(status) == Emit("http.Error", "", [NoBody EXCEPT !.statusCode = status])

\* (*w).WriteHeader(status); (*w).Write(nil)
writeHeader(status) ==
    Emit("WriteHeader", "", [NoBody EXCEPT !.statusCode = status])

\* sendV1Result(w, code, errstr, &bjson) with what
\* r.ExportV1ConfigurationList() returned
sendV1Result(r) ==
    Emit("sendV1Result", "", [NoBody EXCEPT !.statusCode = r.Code])

\* respondV1 returns without writing to the http.ResponseWriter
noReply == Emit("return", "", NoBody)

\* respondV1, case msg.ActionRemove
respondV1Remove(r) ==
    IF r.Error /\ r.Code >= ResultServerError
    THEN <<httpError(ResultServerError)>>
    ELSE IF r.Error /\ r.Code >= ResultBadRequest
    THEN <<httpError(ResultBadRequest)>>
    ELSE <<writeHeader(StatusNoContent)>>

\* respondV1: everything it emits for Result r
respondV1(r, marshalErr) ==
    IF r.Section = SectionRegistration THEN <<panicProtocol>>
    ELSE IF r.Section # SectionConfiguration THEN <<noReply>>
    ELSE CASE r.Action = ActionList ->
                IF marshalErr THEN <<hardInternalError>>
                ELSE <<sendV1Result(r)>>
           [] r.Action = ActionRemove -> respondV1Remove(r)
           [] OTHER -> <<noReply>>

\* respond: the output function for all requests
respond(r, both, marshalErr) ==
    CASE r.Version = ProtocolInvalid -> <<panicProtocol>>
      [] r.Version = ProtocolOne -> respondV1(r, marshalErr)
      [] r.Version = ProtocolTwo -> respondV2(r, both, marshalErr)
      [] OTHER -> <<noReply>>

\* the Result the handler holds when respond has returned
respondResult(r, both) ==
    IF r.Version = ProtocolTwo THEN respondV2Result(r, both) ELSE r

\* ------------------------------------------------------------ requests, faults
Request(action, cfg, hash, task, alarm, reset) ==
    [action |-> action, cfg |-> cfg, hash |-> hash, task |-> task,
     alarm |-> alarm, reset |-> reset]

NoRequest == Request(ActionNop, "c1", "h1", "", FALSE, FALSE)

\* the requests the HTTP handlers compose: every shape for configuration c1,
\* add and deprovisioning remove for c2
Requests ==
    {Request(a, "c1", h, "", FALSE, FALSE) :
        a \in {ActionAdd, ActionUpdate}, h \in Hashes}
    \cup {Request(ActionRemove, "c1", "h1", t, FALSE, FALSE) :
        t \in {"", TaskDelete}}
    \cup {Request(ActionRemove, "c1", "h1", "", TRUE, FALSE),
          Request(ActionRemove, "c1", "h1", "", FALSE, TRUE),
          Request(ActionRemove, "c1", "h1", TaskDelete, TRUE, FALSE)}
    \cup {Request(a, "c1", "h1", "", FALSE, FALSE) :
        a \in {ActionActivate, ActionNop, ActionList}}
    \cup {Request(a, "c2", "h1", "", FALSE, FALSE) :
        a \in {ActionAdd, ActionRemove}}

\* the requests of the runs that exercise the input queue
QueuedRequests ==
    {Request(a, c, "h1", "", FALSE, FALSE) :
        a \in {ActionAdd, ActionRemove}, c \in ConfigIDs}
    \cup {Request(a, "c1", "h1", "", FALSE, FALSE) :
        a \in {ActionUpdate, ActionActivate, ActionNop, ActionList}}

StepsOf(action) ==
    CASE action = ActionAdd ->
            {"marshal", "begin", "lookup", "bind", "select", "close", "insert",
             "prov", "actget", "commit"}
      [] action = ActionRemove ->
            {"begin", "load", "close", "finalize", "actdel", "commit"}
      [] action = ActionUpdate -> {"marshal", "begin", "update", "commit"}
      [] action = ActionActivate -> {"actset"}
      [] OTHER -> {}

\* rows-affected counts a statement may report against the handler's
\* expectation
BadRows(step) ==
    CASE step \in {"lookup", "bind", "actdel", "actset"} -> {2}
      [] step \in {"close", "insert", "prov", "finalize", "update"} -> {0, 2}
      [] OTHER -> {}

FaultsOf(action) ==
    {NoFault} \cup {ErrAt(s) : s \in StepsOf(action)}
    \cup UNION {{RowsAt(s, n) : n \in BadRows(s)} : s \in StepsOf(action)}

AllFaults ==
    UNION {FaultsOf(a) : a \in {ActionAdd, ActionRemove, ActionUpdate,
                                ActionActivate, ActionNop}}

\* the Results handed to the renderer: every section of protocol two and a
\* section outside them, with and without an error, whatever payload and flags the worker and the HTTP
\* handler left in them
MsgResult(section, code, error, configuration, registration, flags) ==
    [Version |-> ProtocolTwo, Section |-> section, Action |-> ActionAdd,
     Code |-> code, Error |-> error,
     Configuration |-> configuration, Registration |-> registration,
     Flags |-> flags]

Flags(feedback, cache, clearing) ==
    [SendDeploymentFeedback |-> feedback, CacheInvalidation |-> cache,
     AlarmClearing |-> clearing]

Results ==
    {MsgResult(sec, code, e, c, g, Flags(fb, ci, ac)) :
        sec \in {SectionConfiguration, SectionDeployment, SectionLookup,
                 SectionRegistration, SectionUnset},
        code \in {ResultOK, ResultBadRequest, ResultServerError},
        e \in BOOLEAN,
        c \in {<<>>, <<ReqConfiguration(NoRequest)>>},
        g \in {<<>>, <<"r1">>},
        fb \in BOOLEAN, ci \in BOOLEAN, ac \in BOOLEAN}

\* the Results of protocol one handed to the renderer
ResultsV1 ==
    {[MsgResult(sec, code, e, c, <<>>, Flags(FALSE, FALSE, FALSE))
        EXCEPT !.Version = ProtocolOne, !.Action = a] :
        sec \in {SectionConfiguration, SectionLookup, SectionRegistration},
        a \in {ActionRemove, ActionList, ActionAdd},
        code \in {ResultOK, ResultBadRequest, ResultServerError},
        e \in BOOLEAN,
        c \in {<<>>, <<ReqConfiguration(NoRequest)>>}}

NoResult ==
    MsgResult(SectionConfiguration, 0, FALSE, <<>>, <<>>,
              Flags(FALSE, FALSE, FALSE))

\* the store failures of the runs that exercise the input queue: a failed
\* Begin, a failed statement, a row-count mismatch, a failed Commit
QueuedFaults ==
    {NoFault, ErrAt("begin"), ErrAt("insert"), ErrAt("update"), ErrAt("actset"),
     RowsAt("close", 0), RowsAt("finalize", 2), ErrAt("commit")}

\* ---------------------------------------------------------------------- state
\* now      the wall clock (time.Now().UTC())
\* store    the committed content of the database
\* Input    the buffered Input channel of the write worker
\* replies  per request, the number of Results sent on its Reply channel
\* ticket   the number of requests sent on Input so far; a request's ticket
\*          is its position in the order of submission
\* served   the ticket of the request processed last
\* last     the request processed last, its timestamp and what process left
\* openTx   transactions begun and neither committed nor rolled back
\* job      what the write worker is doing: idle, inside the handler of a
\*          request waiting for conn.Begin (begin) or for its statements
\*          and the end of its transaction (running), or about to send the
\*          Result on the Reply channel; with the request and the time.Now()
\*          the handler read
\* result   the Result the HTTP handler holds and passes to respond
\* rendered the Result as it was when respond was called; NoResult before
\* wire     what respondV2 emitted for it, in order; empty before it ran
\* ShutdownInProgress  the shutdown flag of the REST layer
\* gate     per HTTP request arriving at CheckShutdown: where it is, how often
\*          its wrapped handler was invoked, whether the handler sent a
\*          request to the write worker, and the status the gate wrote
NoLast ==
    [ticket |-> 0, req |-> NoRequest, at |-> 0, clean |-> TRUE,
     out |-> Result(Outcome(EmptyStore, 0, FALSE, <<>>, "none"))]

\* the worker waits for a request
NoJob == [phase |-> "idle", ticket |-> 0, req |-> NoRequest, at |-> 0]

\* the HTTP requests that arrive at the shutdown gate, none arrived yet
Arrivals == 1..MaxArrivals

NoArrivals ==
    [r \in Arrivals |->
        [pc |-> "new", invoked |-> 0, enqueued |-> FALSE, status |-> 0]]

Tickets == 1..(IF MaxQueued > MaxRequests THEN MaxQueued ELSE MaxRequests)

Init ==
    /\ now = 0
    /\ store = EmptyStore
    /\ Input = <<>>
    /\ job = NoJob
    /\ replies = [t \in Tickets |-> 0]
    /\ ticket = 0
    /\ served = 0
    /\ last = NoLast
    /\ openTx = 0
    /\ result = NoResult
    /\ rendered = NoResult
    /\ wire = <<>>
    /\ ShutdownInProgress = FALSE
    /\ gate = NoArrivals

\* time.Now() moves on
Tick ==
    /\ now + ClockStep <= MaxTime
    /\ now' = now + ClockStep
    /\ UNCHANGED <<store, Input, job, replies, ticket, served, last, openTx,
                   result, rendered, wire, ShutdownInProgress, gate>>

\* the failures of a handler before its first database statement:
\* json.Marshal and conn.Begin
EarlyFaults(action) ==
    {f \in FaultsOf(action) : f.at \in {"marshal", "begin"}}

\* json.Marshal(q.Configuration) fails
MarshalFaults(action) == {f \in FaultsOf(action) : f.at = "marshal"}

\* w.conn.Begin() fails
BeginFaults(action) == {f \in FaultsOf(action) : f.at = "begin"}

\* add, remove and update run in a transaction of their own
Transactional(action) == action \in {ActionAdd, ActionRemove, ActionUpdate}

\* the handlers that wait for the database: the transactional ones on
\* conn.Begin, and activate on its statement
AwaitsDatabase(action, f) ==
    /\ f = NoFault
    /\ action \in {ActionAdd, ActionRemove, ActionUpdate, ActionActivate}

\* the timestamp of a handler: add and remove read time.Now() before they
\* open the transaction; the activation statement takes the time of the
\* database when it executes
handlerTime(j, clock) ==
    IF j.req.action = ActionActivate THEN clock ELSE j.at

\* the handler of the request returns: what it leaves in the store and in
\* the Result
Return(j, f) ==
    \E out \in {process(store, j.req, handlerTime(j, now), f)} :
        /\ store' = out.store
        /\ last' = [ticket |-> j.ticket, req |-> j.req,
                    at |-> handlerTime(j, now),
                    clean |-> (f = NoFault),
                    out |-> Result(out)]
        /\ openTx' = IF j.phase = "running" /\ Transactional(j.req.action)
                        /\ out.tx # "open"
                     THEN openTx - 1 ELSE openTx

\* process(q) from the receive to the first wait for the database: the
\* handler reads the clock and calls conn.Begin or, in activate, executes
\* its statement; or it returns at once (a failed Marshal, ActionNop, an
\* unknown action)
Start(m, f) ==
    /\ job.phase = "idle"
    /\ f \in {NoFault} \cup MarshalFaults(m.req.action)
    /\ IF AwaitsDatabase(m.req.action, f)
       THEN /\ job' = [phase |-> IF Transactional(m.req.action)
                                 THEN "begin" ELSE "running",
                       ticket |-> m.ticket, req |-> m.req, at |-> now]
            /\ UNCHANGED <<store, last, openTx>>
       ELSE /\ job' = [phase |-> "replying", ticket |-> m.ticket,
                       req |-> m.req, at |-> now]
            /\ Return(job', f)

\* w.conn.Begin() returns: the transaction is open, or the handler returns
\* with a ServerError
Begin(f) ==
    /\ job.phase = "begin"
    /\ f \in {NoFault} \cup BeginFaults(job.req.action)
    /\ IF f = NoFault
       THEN /\ job' = [job EXCEPT !.phase = "running"]
            /\ openTx' = openTx + 1
            /\ UNCHANGED <<store, last>>
       ELSE /\ job' = [job EXCEPT !.phase = "replying"]
            /\ Return(job, f)
    /\ UNCHANGED <<now, Input, replies, ticket, served, result, rendered,
                   wire, ShutdownInProgress, gate>>

\* an HTTP handler sends a Request on Input while the worker is waiting to
\* receive: the worker takes it at once
Serve(q, f) ==
    /\ ticket < MaxRequests
    /\ Input = <<>>
    /\ ticket' = ticket + 1
    /\ Start([ticket |-> ticket + 1, req |-> q], f)
    /\ UNCHANGED <<now, Input, replies, served, result, rendered, wire,
                   ShutdownInProgress, gate>>

\* an HTTP handler sends a Request on Input while the worker is busy: the
\* request waits in the channel buffer; the send blocks while the buffer is
\* full
Enqueue(q) ==
    /\ ticket < MaxQueued
    /\ Len(Input) < QueueLen
    /\ ticket' = ticket + 1
    /\ Input' = Append(Input, [ticket |-> ticket + 1, req |-> q])
    /\ UNCHANGED <<now, store, job, replies, served, last, openTx, result,
                   rendered, wire, ShutdownInProgress, gate>>

\* faulty variant: the request sent last is received first
receive_Newest(input) ==
    [msg |-> input[Len(input)], rest |-> SubSeq(input, 1, Len(input) - 1)]

\* the receive from the Input channel: the request received and what stays
\* in the buffer
receive(input) == [msg |-> Head(input), rest |-> Tail(input)]

\* the worker receives the next buffered request
Process(f) ==
    /\ Input # <<>>
    /\ Start(receive(Input).msg, f)
    /\ Input' = receive(Input).rest
    /\ UNCHANGED <<now, replies, ticket, served, result, rendered, wire,
                   ShutdownInProgress, gate>>

\* the database answers: the statements of the handler run in its
\* transaction, up to tx.Commit or tx.Rollback, and the handler returns
Execute(f) ==
    /\ job.phase = "running"
    /\ f \in FaultsOf(job.req.action) \ EarlyFaults(job.req.action)
    /\ Return(job, f)
    /\ job' = [job EXCEPT !.phase = "replying"]
    /\ UNCHANGED <<now, Input, replies, ticket, served, result, rendered,
                   wire, ShutdownInProgress, gate>>

\* q.Reply <- result
Reply ==
    /\ job.phase = "replying"
    /\ replies' = [replies EXCEPT ![job.ticket] = @ + repliesSent(job.req)]
    /\ served' = job.ticket
    /\ job' = NoJob
    /\ UNCHANGED <<now, store, Input, ticket, last, openTx, result, rendered,
                   wire, ShutdownInProgress, gate>>

\* the write worker serving one request after the other as the clock advances
Next ==
    \/ Tick
    \/ \E q \in Requests, f \in AllFaults : Serve(q, f)
    \/ \E f \in AllFaults : Begin(f)
    \/ \E f \in AllFaults : Execute(f)
    \/ Reply

Spec == Init /\ [][Next]_vars

\* concurrent HTTP handlers filling the Input channel of the write worker
NextQ ==
    \/ \E q \in QueuedRequests : Enqueue(q)
    \/ \E f \in QueuedFaults : Process(f)
    \/ \E f \in QueuedFaults : Begin(f)
    \/ \E f \in QueuedFaults : Execute(f)
    \/ Reply

SpecQ == Init /\ [][NextQ]_vars

\* the worker goroutine keeps running and the database answers: a buffered
\* request is received, a handler returns, a Result is sent
FairSpecQ ==
    /\ SpecQ
    /\ WF_vars(\E f \in QueuedFaults : Process(f))
    /\ WF_vars(\E f \in QueuedFaults : Begin(f))
    /\ WF_vars(\E f \in QueuedFaults : Execute(f))
    /\ WF_vars(Reply)

\* an HTTP handler holds a Result of protocol two
InitRender ==
    /\ now = 0
    /\ store = EmptyStore
    /\ Input = <<>>
    /\ job = NoJob
    /\ replies = [t \in Tickets |-> 0]
    /\ ticket = 0
    /\ served = 0
    /\ last = NoLast
    /\ openTx = 0
    /\ result \in Results
    /\ rendered = NoResult
    /\ wire = <<>>
    /\ ShutdownInProgress = FALSE
    /\ gate = NoArrivals

\* respond(w, r)
Respond(both, marshalErr) ==
    /\ wire = <<>>
    /\ wire' = respond(result, both, marshalErr)
    /\ rendered' = result
    /\ result' = respondResult(result, both)
    /\ UNCHANGED <<now, store, Input, job, replies, ticket, served, last,
                   openTx, ShutdownInProgress, gate>>

\* the next request comes in and its handler gets a Result to render
NextResult(r) ==
    /\ wire # <<>>
    /\ result' = r
    /\ rendered' = NoResult
    /\ wire' = <<>>
    /\ UNCHANGED <<now, store, Input, job, replies, ticket, served, last,
                   openTx, ShutdownInProgress, gate>>

NextRender ==
    \/ \E both \in BOOLEAN, marshalErr \in BOOLEAN : Respond(both, marshalErr)
    \/ \E r \in Results : NextResult(r)

SpecRender == InitRender /\ [][NextRender]_vars

\* an HTTP handler of API version 1 holds a Result
InitRenderV1 ==
    /\ now = 0
    /\ store = EmptyStore
    /\ Input = <<>>
    /\ job = NoJob
    /\ replies = [t \in Tickets |-> 0]
    /\ ticket = 0
    /\ served = 0
    /\ last = NoLast
    /\ openTx = 0
    /\ result \in ResultsV1
    /\ rendered = NoResult
    /\ wire = <<>>
    /\ ShutdownInProgress = FALSE
    /\ gate = NoArrivals

NextRenderV1 ==
    \/ \E both \in BOOLEAN, marshalErr \in BOOLEAN : Respond(both, marshalErr)
    \/ \E r \in ResultsV1 : NextResult(r)

SpecRenderV1 == InitRenderV1 /\ [][NextRenderV1]_vars

\* ---------------------------------------------------------------- CheckShutdown
\* faulty variant: the gate lets every request through
admit_Always(shutdown) == TRUE

\* if !ShutdownInProgress
admit(shutdown) == ~shutdown

\* CheckShutdown: request r reaches the gate; the flag is read once, the
\* wrapped handler is invoked or `service unavailable` is written
CheckShutdown(r) ==
    /\ gate[r].pc = "new"
    /\ gate' = [gate EXCEPT ![r] =
                    IF admit(ShutdownInProgress)
                    THEN [@ EXCEPT !.pc = "handler", !.invoked = @ + 1]
                    ELSE [@ EXCEPT !.pc = "denied",
                                   !.status = StatusServiceUnavailable]]
    /\ UNCHANGED <<now, store, Input, job, replies, ticket, served, last,
                   openTx, result, rendered, wire, ShutdownInProgress>>

\* the wrapped handler sends its request to the write worker
HandlerEnqueue(r) ==
    /\ gate[r].pc = "handler"
    /\ ~gate[r].enqueued
    /\ gate' = [gate EXCEPT ![r].enqueued = TRUE]
    /\ UNCHANGED <<now, store, Input, job, replies, ticket, served, last,
                   openTx, result, rendered, wire, ShutdownInProgress>>

\* h(w, r, ps) returns and the latency timer is updated
HandlerReturn(r) ==
    /\ gate[r].pc = "handler"
    /\ gate' = [gate EXCEPT ![r].pc = "returned"]
    /\ UNCHANGED <<now, store, Input, job, replies, ticket, served, last,
                   openTx, result, rendered, wire, ShutdownInProgress>>

\* the runtime signals the shutdown
BeginShutdown ==
    /\ ~ShutdownInProgress
    /\ ShutdownInProgress' = TRUE
    /\ UNCHANGED <<now, store, Input, job, replies, ticket, served, last,
                   openTx, result, rendered, wire, gate>>

NextGate ==
    \/ \E r \in Arrivals : CheckShutdown(r)
    \/ \E r \in Arrivals : HandlerEnqueue(r)
    \/ \E r \in Arrivals : HandlerReturn(r)
    \/ BeginShutdown

SpecGate == Init /\ [][NextGate]_vars

\* the goroutine of an invoked handler keeps running until it returns
FairSpecGate == SpecGate /\ \A r \in Arrivals : WF_vars(HandlerReturn(r))

\* ===================================================================== claims
\* a step in which the handler of a request returned: the store and the
\* Result are as the handler leaves them
Processed == last'.ticket # last.ticket

\* a step in which the worker took a request
Taken == job'.ticket # job.ticket /\ job'.phase # "idle"

RowOf(st, dataID) == CHOOSE r \in st.data : r.id = dataID
ProvOf(st, dataID) == CHOOSE p \in st.prov : p.dataID = dataID
DataIDs(st) == {r.id : r \in st.data}

ValidityExclusion(st) ==
    /\ ExclusionHolds(st.data)
    /\ \A c \in ConfigIDs : Cardinality(OpenRows(st, c)) <= 1

\* C1: for every ConfigurationID the validity intervals of its committed data
\* rows are pairwise non-overlapping and at most one row is open, and the
\* steps of the write worker alone see to it: the exclusion constraint of the
\* database never has to reject a write of the worker.
C1_ValidityExclusionByWorker ==
    ValidityExclusion(store) /\ ~last.out.excluded

\* C2: a successful add at instant T on a configuration with a live revision R
\* leaves exactly one new data row, valid from T to infinity; R is valid until
\* T and from where it was; every row that existed still exists.
C2_AddConservation ==
    [][ (/\ Processed
         /\ last'.req.action = ActionAdd
         /\ last'.out.code = ResultOK
         /\ OpenRows(store, last'.req.cfg) # {})
        => LET T    == last'.at
               cfg  == last'.req.cfg
               R    == CHOOSE r \in OpenRows(store, cfg) : TRUE
               new  == {r \in store'.data : r.id \notin DataIDs(store)}
           IN  /\ Cardinality(new) = 1
               /\ \A r \in new : /\ r.cfg = cfg
                                 /\ r.validFrom = T
                                 /\ r.validUntil = PosTimeInf
               /\ DataIDs(store) \subseteq DataIDs(store')
               /\ RowOf(store', R.id).validUntil = T
               /\ RowOf(store', R.id).validFrom = R.validFrom
               /\ \A r \in store.data : r.id # R.id => r \in store'.data ]_vars

C2_Witness ==
    /\ last.req.action = ActionAdd
    /\ last.out.code = ResultOK
    /\ last.out.found
    /\ \E r \in store.data :
          /\ r.cfg = last.req.cfg
          /\ r.validFrom < last.at
          /\ r.validUntil = last.at
    /\ \E r \in store.data :
          /\ r.id = last.out.dataID
          /\ r.validFrom = last.at
          /\ r.validUntil = PosTimeInf

Min(a, b) == IF a < b THEN a ELSE b

\* C3: a successful remove at instant T that finds an active revision leaves
\* its ValidUntil at or below the value before the call and at or above
\* min(T, that value), and its DeprovisionedAt at or below T and at or above
\* the value before the call ('never' below every instant).
C3_RemoveMonotonicity ==
    [][ (/\ Processed
         /\ last'.req.action = ActionRemove
         /\ last'.out.code = ResultOK
         /\ last'.out.found)
        => LET T    == last'.at
               id   == last'.out.dataID
               pre  == RowOf(store, id)
               post == RowOf(store', id)
               preD  == ProvOf(store, id).deprovisionedAt
               postD == ProvOf(store', id).deprovisionedAt
           IN  /\ post.validUntil <= pre.validUntil
               /\ post.validUntil >= Min(T, pre.validUntil)
               /\ postD <= T
               /\ postD >= preD ]_vars

C3_Witness ==
    /\ last.req.action = ActionRemove
    /\ last.out.code = ResultOK
    /\ last.out.found
    /\ last.at > 0
    /\ RowOf(store, last.out.dataID).validUntil < PosTimeInf

\* C6: an activate on a configuration without activation record returns the
\* configuration and records the activation at that instant; an activate on
\* an activated configuration returns OK with empty payload and leaves the
\* record as the first call set it; there is never more than one activation
\* record per configuration.
C6_IdempotentActivation ==
    /\ [][ (/\ Processed
            /\ last'.req.action = ActionActivate
            /\ last'.clean)
           => LET cfg == last'.req.cfg
                  had == {a \in store.act : a.cfg = cfg}
              IN  IF had = {}
                  THEN /\ last'.out.code = ResultOK
                       /\ Len(last'.out.payload) = 1
                       /\ last'.out.payload[1].ID = cfg
                       /\ store'.act = store.act \cup {[cfg |-> cfg, at |-> last'.at]}
                  ELSE /\ last'.out.code = ResultOK
                       /\ last'.out.payload = <<>>
                       /\ store'.act = store.act ]_vars
    /\ [](\A c \in ConfigIDs : Cardinality({a \in store.act : a.cfg = c}) <= 1)

\* two requests were served, the second an activate answered OK without
\* payload on an activation recorded earlier: the first was an activate too
C6_Witness ==
    /\ served = 2
    /\ last.req.action = ActionActivate
    /\ last.clean
    /\ last.out.code = ResultOK
    /\ last.out.payload = <<>>
    /\ \E a \in store.act : a.cfg = last.req.cfg /\ a.at < last.at

\* C8: an add that ends with a status >= 400 leaves the store as it was and
\* carries no configuration payload.
C8_FailedAddPersistsNothing ==
    [][ (/\ Processed
         /\ last'.req.action = ActionAdd
         /\ last'.out.code >= 400)
        => /\ store' = store
           /\ last'.out.payload = <<>> ]_vars

\* an add that failed after its first statements had written: the row count
\* of the data insert was off, with a live revision to close before it
C8_Witness ==
    /\ last.req.action = ActionAdd
    /\ last.out.code >= 400
    /\ last.out.tx = "rolledback"
    /\ OpenRows(store, last.req.cfg) # {}

\* C9: an add whose provisioning insert affects a number of rows other than 1
\* is rolled back and answered with an error.
C9_ProvisioningRowCount ==
    (/\ last.req.action = ActionAdd
     /\ last.out.provRows \notin {-1, 1})
    => /\ last.out.code >= 400
       /\ last.out.tx = "rolledback"

\* C10: a remove without TaskDelete at instant T on a revision open to
\* infinity and never deprovisioned commits it with ValidUntil = T + 15
\* minutes and DeprovisionedAt = T, finalizes its provisioning record at T and
\* returns the configuration with that Info.
C10_FirstDeprovision ==
    [][ (/\ Processed
         /\ last'.req.action = ActionRemove
         /\ last'.req.task # TaskDelete
         /\ last'.out.code = ResultOK
         /\ last'.out.found
         /\ RowOf(store, last'.out.dataID).validUntil = PosTimeInf
         /\ ProvOf(store, last'.out.dataID).deprovisionedAt = NegTimeInf)
        => LET T    == last'.at
               id   == last'.out.dataID
               info == last'.out.payload[1].Data[1].Info
           IN  /\ RowOf(store', id).validUntil = T + GraceMinutes
               /\ ProvOf(store', id).deprovisionedAt = T
               /\ Len(last'.out.payload) = 1
               /\ info.ValidUntil = FormatValidity(T + GraceMinutes)
               /\ info.DeprovisionedAt = FormatProvision(T) ]_vars

Calls(call) == {i \in DOMAIN wire : wire[i].call = call}

PayloadOnWire ==
    \E i \in DOMAIN wire :
        wire[i].body.configurations # <<>> \/ wire[i].body.registrations # <<>>

\* C4 as stated: for every Result rendered by respondV2 with Code >= 400 the
\* response carries no configuration and no registration object, and neither
\* a deployment-feedback call nor an alarm-clearing call is emitted.
C4_NoLeakageNoSideEffect ==
    (wire # <<>> /\ result.Code >= 400)
    => /\ ~PayloadOnWire
       /\ Calls("sendSomaFeedback") = {}
       /\ Calls("clearCamsAlarm") = {}

\* C4 amended: for every Result rendered by respondV2 with Code >= 400 the
\* response carries no configuration and no registration object and no
\* alarm-clearing call is emitted, even when AlarmClearing was set; a
\* deployment-feedback call is emitted only when SendDeploymentFeedback was
\* set, at most once, and it carries the token 'failed'.
C4_NoLeakageFeedbackFailed ==
    (wire # <<>> /\ result.Code >= 400)
    => /\ ~PayloadOnWire
       /\ Calls("clearCamsAlarm") = {}
       /\ Cardinality(Calls("sendSomaFeedback")) <= 1
       /\ \A i \in Calls("sendSomaFeedback") :
             /\ result.Flags.SendDeploymentFeedback
             /\ wire[i].token = "failed"

\* a server error carrying a configuration, with deployment feedback and
\* alarm clearing requested, was rendered and answered
C4_Witness ==
    /\ result.Code = ResultServerError
    /\ result.Configuration # <<>>
    /\ rendered.Flags.SendDeploymentFeedback
    /\ rendered.Flags.AlarmClearing
    /\ ~result.Flags.AlarmClearing
    /\ Calls("sendJSONReply") # {}
    /\ \A i \in Calls("sendJSONReply") :
          /\ wire[i].body.statusCode = ResultServerError
          /\ wire[i].body.configurations = <<>>

\* C5: every request sent on the Input channel is eventually answered with a
\* Result on its reply channel, whatever its action and whatever the store
\* does, and never with more than one.
C5_ExactlyOneReply ==
    /\ [](\A t \in Tickets : replies[t] <= 1)
    /\ \A t \in Tickets :
          (\E i \in DOMAIN Input : Input[i].ticket = t) ~> (replies[t] = 1)

\* an unsupported action was answered, after a request whose transaction
\* failed had been
C5_Witness ==
    /\ last.req.action = ActionList
    /\ last.ticket >= 2
    /\ \A t \in 1..last.ticket : replies[t] = 1

\* C7: the worker applies a request only when no request for the same
\* ConfigurationID submitted before it is still waiting, and with no
\* transaction of an earlier request still open.
C7_SubmissionOrder ==
    /\ [][ Taken
           => /\ openTx = 0
              /\ \A i \in DOMAIN Input :
                    (Input[i].req.cfg = job'.req.cfg
                     /\ Input[i].ticket # job'.ticket)
                       => Input[i].ticket > job'.ticket ]_vars
    /\ [][ Processed
           => /\ job'.ticket = last'.ticket
              /\ openTx' = 0
              /\ \A i \in DOMAIN Input' :
                    Input'[i].req.cfg = last'.req.cfg
                       => Input'[i].ticket > last'.ticket ]_vars

\* a request was applied while a later request for the same ConfigurationID
\* was waiting behind it in the channel
C7_Witness ==
    /\ served >= 1
    /\ \E i \in DOMAIN Input :
          /\ Input[i].req.cfg = last.req.cfg
          /\ Input[i].ticket > last.ticket
    /\ last.req.action = ActionAdd
    /\ last.out.code = ResultOK

\* the task appended last to the provisioning record of a data revision
FinalTask(st, dataID) ==
    ProvOf(st, dataID).tasks[Len(ProvOf(st, dataID).tasks)]

\* C11: a successful remove at instant T on a revision open to infinity
\* finalizes it with task 'delete' and ValidUntil = T when the request
\* specifies TaskDelete, whatever the AlarmClearing flag; otherwise with task
\* 'clearing' when AlarmClearing is set and 'deprovision' when not, and with
\* ValidUntil = T + 15 minutes.
C11_RemoveTaskAndGrace ==
    [][ (/\ Processed
         /\ last'.req.action = ActionRemove
         /\ last'.out.code = ResultOK
         /\ last'.out.found
         /\ RowOf(store, last'.out.dataID).validUntil = PosTimeInf)
        => LET T  == last'.at
               id == last'.out.dataID
               q  == last'.req
           IN  IF q.task = TaskDelete
               THEN /\ FinalTask(store', id) = TaskDelete
                    /\ RowOf(store', id).validUntil = T
               ELSE /\ FinalTask(store', id) =
                          (IF q.alarm THEN TaskClearing ELSE TaskDeprovision)
                    /\ RowOf(store', id).validUntil = T + GraceMinutes ]_vars

\* a final deletion with the clearing flag set was committed at a later
\* instant than the revision was rolled out
C11_Witness ==
    /\ last.req.action = ActionRemove
    /\ last.req.task = TaskDelete
    /\ last.req.alarm
    /\ last.out.code = ResultOK
    /\ last.out.found
    /\ last.at > 0
    /\ RowOf(store, last.out.dataID).validUntil = last.at
    /\ FinalTask(store, last.out.dataID) = TaskDelete

\* C12: the deployment-feedback call and the alarm-clearing call for a result
\* are dispatched only after its response has been marshalled and written to
\* the client, and none is dispatched for a result whose marshalling fails
\* and is answered with the hard internal error.
C12_SideEffectsFollowReply ==
    /\ \A i \in Calls("sendSomaFeedback") \cup Calls("clearCamsAlarm") :
          \E j \in Calls("sendJSONReply") : j < i
    /\ Calls("hardInternalError") # {}
          => Calls("sendSomaFeedback") \cup Calls("clearCamsAlarm") = {}

\* C13: a request that reaches CheckShutdown while ShutdownInProgress is true
\* is answered with 503 and its wrapped handler is never invoked, so it is
\* never enqueued on the write worker; a request that reaches it while the
\* flag is false has its handler invoked exactly once, and the handler runs
\* to completion even if the flag becomes true meanwhile.
C13_ShutdownGate ==
    /\ [][ \A r \in Arrivals :
              (gate[r].pc = "new" /\ gate'[r].pc # "new")
              => IF ShutdownInProgress
                 THEN /\ gate'[r].pc = "denied"
                      /\ gate'[r].status = StatusServiceUnavailable
                      /\ gate'[r].invoked = 0
                 ELSE /\ gate'[r].pc = "handler"
                      /\ gate'[r].invoked = 1
                      /\ gate'[r].status = 0 ]_vars
    /\ [](\A r \in Arrivals :
              /\ gate[r].pc = "denied"
                    => gate[r].invoked = 0 /\ ~gate[r].enqueued
              /\ gate[r].pc \in {"handler", "returned"}
                    => gate[r].invoked = 1 /\ gate[r].status = 0)
    /\ \A r \in Arrivals :
          (gate[r].pc = "handler") ~> (gate[r].pc = "returned")

\* the shutdown began while one admitted handler was still running and after
\* another had returned; a third request was denied
C13_Witness ==
    /\ ShutdownInProgress
    /\ \E r \in Arrivals : gate[r].pc = "handler" /\ gate[r].enqueued
    /\ \E r \in Arrivals : gate[r].pc = "returned" /\ gate[r].invoked = 1
    /\ \E r \in Arrivals :
          gate[r].pc = "denied" /\ gate[r].status = StatusServiceUnavailable

\* C14 as stated: whenever respondV2 sends deployment feedback for a result
\* the token is 'failed' if the result's Error is non-nil and 'success'
\* otherwise, and exactly one token is sent per rendered result that has
\* SendDeploymentFeedback set.
C14_FeedbackTokenByError ==
    wire # <<>>
    => /\ \A i \in Calls("sendSomaFeedback") :
             wire[i].token = (IF result.Error THEN "failed" ELSE "success")
       /\ (/\ result.Flags.SendDeploymentFeedback
           /\ Calls("sendJSONReply") \cup Calls("hardInternalError") # {})
             => Cardinality(Calls("sendSomaFeedback")) = 1

\* C14 amended: whenever respondV2 sends deployment feedback for a result the
\* token is 'failed' if the result's Error is non-nil or its Code is >= 400,
\* and 'success' otherwise; no token is sent for a result without
\* SendDeploymentFeedback, never more than one for a result, and exactly one
\* for every result with SendDeploymentFeedback set that respondV2 answers
\* (with the JSON reply or the hard internal error).
C14_FeedbackTokenByErrorOrCode ==
    wire # <<>>
    => /\ \A i \in Calls("sendSomaFeedback") :
             wire[i].token =
                (IF result.Error \/ result.Code >= 400 THEN "failed"
                 ELSE "success")
       /\ ~result.Flags.SendDeploymentFeedback
             => Calls("sendSomaFeedback") = {}
       /\ Cardinality(Calls("sendSomaFeedback")) <= 1
       /\ (/\ result.Flags.SendDeploymentFeedback
           /\ Calls("sendJSONReply") \cup Calls("hardInternalError") # {})
             => Cardinality(Calls("sendSomaFeedback")) = 1

\* feedback 'failed' was sent for a result that carries an error under a
\* status below 400, and the result was answered
C14_Witness ==
    /\ result.Error
    /\ result.Code = ResultOK
    /\ result.Flags.SendDeploymentFeedback
    /\ \E i \in Calls("sendSomaFeedback") : wire[i].token = "failed"
    /\ Calls("sendJSONReply") # {}

\* C15: for every v1 result with Section Configuration and Action remove the
\* response is HTTP 500 when Code >= 500, HTTP 400 when 400 <= Code < 500, and
\* HTTP 204 without body only when the request succeeded; exactly one of the
\* three is written.
C15_V1RemoveStatus ==
    (/\ wire # <<>>
     /\ result.Version = ProtocolOne
     /\ result.Section = SectionConfiguration
     /\ result.Action = ActionRemove)
    => /\ Len(wire) = 1
       /\ wire[1].call \in {"http.Error", "WriteHeader"}
       /\ wire[1].body.statusCode =
             (IF result.Code >= ResultServerError THEN ResultServerError
              ELSE IF result.Code >= ResultBadRequest THEN ResultBadRequest
              ELSE StatusNoContent)

\* C16: an update whose statement affects exactly 1 row commits and returns
\* OK (a failing Commit aside); an update whose statement affects any other
\* number of rows returns a ServerError with the message 'Rollback: update
\* statement affected N rows' and leaves the store unchanged; no update
\* creates a Data revision or changes a validity interval.
C16_UpdateAllOrNothing ==
    [][ (Processed /\ last'.req.action = ActionUpdate)
        => /\ store'.data = store.data
           /\ store'.prov = store.prov
           /\ (last'.out.rows = 1 /\ last'.out.tx # "failed")
                 => /\ last'.out.code = ResultOK
                    /\ last'.out.tx = "committed"
                    /\ \E c \in store'.cfg :
                          c.id = last'.req.cfg /\ c.hash = last'.req.hash
           /\ last'.out.rows \notin {-1, 1}
                 => /\ last'.out.code = ResultServerError
                    /\ last'.out.err
                    /\ last'.out.message = updateRowsMessage(last'.out.rows)
                    /\ last'.out.tx = "rolledback"
                    /\ store' = store ]_vars

\* an update of a configuration with a live revision reported two rows and
\* was rolled back
C16_Witness ==
    /\ last.req.action = ActionUpdate
    /\ last.out.rows = 2
    /\ last.out.code = ResultServerError
    /\ OpenRows(store, last.req.cfg) # {}

\* C17: a remove for a ConfigurationID without an active revision leaves every
\* table of the store unchanged, the activation record included even when
\* ResetActivation is set, carries no configuration, and returns OK unless
\* the store fails.
C17_RemoveMissingNoOp ==
    [][ (/\ Processed
         /\ last'.req.action = ActionRemove
         /\ ~txCfgLoadActive(store, last'.req.cfg).found)
        => /\ store' = store
           /\ last'.out.payload = <<>>
           /\ last'.clean => /\ last'.out.code = ResultOK
                              /\ last'.out.tx = "committed" ]_vars

\* a remove with ResetActivation for a configuration that is activated but
\* has no revision was answered OK and the activation record is still there
C17_Witness ==
    /\ last.req.action = ActionRemove
    /\ last.req.reset
    /\ last.clean
    /\ last.out.code = ResultOK
    /\ ~last.out.found
    /\ \E a \in store.act : a.cfg = last.req.cfg

\* C18: whatever request the worker processes, successful or failed, every
\* Data row stored before is stored after, for the same ConfigurationID and
\* with the same ValidFrom.
C18_HistoryRetention ==
    [][ \A r \in store.data :
            \E k \in store'.data :
                k.id = r.id /\ k.cfg = r.cfg /\ k.validFrom = r.validFrom ]_vars

\* a second revision was added and then removed: both revisions of the
\* configuration are stored, the first closed at the rollout of the second
C18_Witness ==
    /\ last.req.action = ActionRemove
    /\ last.out.code = ResultOK
    /\ last.out.found
    /\ \E r \in store.data :
          /\ r.cfg = last.req.cfg
          /\ r.id # last.out.dataID
          /\ r.validFrom < r.validUntil
          /\ r.validUntil = RowOf(store, last.out.dataID).validFrom

\* C19: a successful remove at a later instant T' > T against the revision
\* that the remove before it removed at T (finite ValidUntil, DeprovisionedAt
\* = T) leaves the revision's ValidUntil and DeprovisionedAt as the first
\* remove set them, and the configuration it returns reports those values.
C19_RepeatedRemoveIdempotent ==
    [][ (/\ Processed
         /\ last.req.action = ActionRemove
         /\ last.out.code = ResultOK
         /\ last.out.found
         /\ last'.req.action = ActionRemove
         /\ last'.req.cfg = last.req.cfg
         /\ last'.out.code = ResultOK
         /\ last'.at > last.at)
        => LET T  == last.at
               id == last.out.dataID
           IN  /\ RowOf(store, id).validUntil < PosTimeInf
               /\ ProvOf(store, id).deprovisionedAt = T
               /\ RowOf(store', id).validUntil = RowOf(store, id).validUntil
               /\ ProvOf(store', id).deprovisionedAt = T
               /\ Len(last'.out.payload) = 1
               /\ Len(last'.out.payload[1].Data) = 1
               /\ last'.out.payload[1].Data[1].ID = id
               /\ last'.out.payload[1].Data[1].Info.ValidUntil =
                     FormatValidity(RowOf(store, id).validUntil)
               /\ last'.out.payload[1].Data[1].Info.DeprovisionedAt =
                     FormatProvision(T) ]_vars

\* C20: when the worker has sent the Result for a request, no transaction it
\* opened is still open: the transaction of the request was committed or
\* rolled back, on the success, abort, row-count-mismatch and commit-failure
\* paths of add, remove and update alike; so the worker never holds more than
\* the one transaction of the request it is processing.
C20_TransactionClosure ==
    /\ openTx \in {0, 1}
    /\ openTx = 1 => job.phase = "running" /\ Transactional(job.req.action)
    /\ job.phase \in {"idle", "replying"} => openTx = 0
    /\ last.out.tx \in {"none", "committed", "rolledback", "failed"}
    /\ last.out.tx = "none"
          => \/ last.req.action \notin {ActionAdd, ActionRemove, ActionUpdate}
             \/ last.out.code = ResultServerError
    /\ last.out.code = ResultOK /\ last.ticket > 0
          => last.out.tx \in {"none", "committed"}

\* a remove whose finalize statement reported a wrong row count was answered
\* after its transaction had been rolled back
C20_Witness ==
    /\ last.req.action = ActionRemove
    /\ last.out.found
    /\ last.out.code = ResultServerError
    /\ last.out.tx = "rolledback"
    /\ replies[last.ticket] = 1
    /\ openTx = 0

\* C21: add and update never change the activation record of a
\* ConfigurationID; a successful remove that finds an active revision leaves
\* the activation records unchanged when ResetActivation is not set and
\* leaves the configuration without an activation record, the others as they
\* were, when it is set, whether or not a record existed; activate never
\* changes a Data row or a provisioning record.
C21_ActivationIndependence ==
    [][ Processed
        => /\ last'.req.action \in {ActionAdd, ActionUpdate}
                 => store'.act = store.act
           /\ (/\ last'.req.action = ActionRemove
               /\ last'.out.code = ResultOK
               /\ last'.out.found)
                 => IF last'.req.reset
                    THEN store'.act =
                            {a \in store.act : a.cfg # last'.req.cfg}
                    ELSE store'.act = store.act
           /\ last'.req.action = ActionActivate
                 => /\ store'.data = store.data
                    /\ store'.prov = store.prov ]_vars

\* a remove with ResetActivation was committed on a configuration that it
\* loaded as activated, and the activation record is gone
C21_Witness ==
    /\ last.req.action = ActionRemove
    /\ last.req.reset
    /\ last.out.code = ResultOK
    /\ last.out.found
    /\ Len(last.out.payload) = 1
    /\ last.out.payload[1].ActivatedAt.kind = "instant"
    /\ \A a \in store.act : a.cfg # last.req.cfg

====
